---------------------------- MODULE Spec2Model ----------------------------
(***************************************************************************)
(* The incremental NNUE evaluator of Clarity (src/src/nnue.h): the weight  *)
(* store, the feature indexer, the accumulator, the accumulator stack of   *)
(* NnueState with its current pointer, and the quantised forward pass.     *)
(***************************************************************************)
EXTENDS Integers, Sequences, FiniteSets, TLC

(***************************************************************************)
(* Dimensions.  InputSize is the real one (2 colours x 6 types x 64        *)
(* squares).  The hidden width (768 in nnue.h:39) and the capacity         *)
(* reserved by the constructors (256 in nnue.h:75) are scaled down; the    *)
(* loops below run over the whole scaled width.                            *)
(***************************************************************************)
Layer1Size == 2
ReservedCapacity == 2
MaxDepth == 3

PieceStride == 64
ColorStride == 64 * 6
InputSize == 2 * ColorStride
Scale == 400
Q == 255 * 64

\* globals.h: enum Pieces { Pawn .. King, None }, Black = 0, White = 8
None == 6
White == 8
NoSquare == 64

(***************************************************************************)
(* Machine arithmetic                                                      *)
(***************************************************************************)
\* conversion of an int to std::int16_t (modular since C++20)
ToInt16(x) == ((x + 32768) % 65536) - 32768

\* int32 arithmetic that may leave the int32 range is carried out on 16-bit
\* limbs, x = Hi16(x) * 2^16 + Lo16(x), so that no intermediate value exceeds
\* 32 bits
Hi16(x) == x \div 65536

Lo16(x) == x % 65536

\* the int32 whose two's-complement limbs are (hi mod 2^16, lo), 0 <= lo < 2^16
FromLimbs(hi, lo) == ToInt16(hi) * 65536 + lo

\* a + b in 32-bit two's-complement registers
AddWrap32(a, b) ==
    LET l == Lo16(a) + Lo16(b)
    IN  FromLimbs(Hi16(a) + Hi16(b) + (l \div 65536), l % 65536)

\* x * m in 32-bit two's-complement registers, 0 < m < 2^15
MulWrap32(x, m) ==
    LET p == Lo16(x) * m
    IN  FromLimbs(Hi16(x) * m + (p \div 65536), p % 65536)

\* x * m / q, the product exact (never narrowed), the quotient truncated toward
\* zero; |x| < 2^31, 0 < m < 2^15, 0 < q < 2^15
MulDivExact(x, m, q) ==
    LET a == IF x < 0 THEN -x ELSE x
        p == Lo16(a) * m
        h == Hi16(a) * m + (p \div 65536)
        l == p % 65536
        quot == (h \div q) * 65536 + (((h % q) * 65536 + l) \div q)
    IN  IF x < 0 THEN -quot ELSE quot

\* C++ integer division truncates toward zero (\div floors)
TruncDiv(a, b) == IF a >= 0 THEN a \div b ELSE -((-a) \div b)

\* std::clamp(v, lo, hi)
Clamp(v, lo, hi) == IF v < lo THEN lo ELSE IF hi < v THEN hi ELSE v

RECURSIVE BitXor(_, _)
\* a ^ b on non-negative operands, bit by bit
BitXor(a, b) ==
    IF a = 0 THEN b
    ELSE IF b = 0 THEN a
    ELSE (((a % 2) + (b % 2)) % 2) + 2 * BitXor(a \div 2, b \div 2)

RECURSIVE BitAnd(_, _)
\* a & b on non-negative operands, bit by bit
BitAnd(a, b) ==
    IF a = 0 \/ b = 0 THEN 0
    ELSE ((a % 2) * (b % 2)) + 2 * BitAnd(a \div 2, b \div 2)

\* a >> n on a non-negative operand
ShiftRight(a, n) == a \div (2 ^ n)

(***************************************************************************)
(* globals.cpp                                                             *)
(***************************************************************************)
getType(value) == BitAnd(value, 7)

getColor(value) == ShiftRight(value, 3)

(***************************************************************************)
(* The weight store.  *g_nnue is filled by a loader outside this           *)
(* repository, so the model draws it from a family of stores: store 1 has  *)
(* small weights that keep the hidden values around the clipping range     *)
(* [0, 255]; store 2 spreads its weights over the whole int16 range, every *)
(* feature weight distinct, so that accumulator updates wrap around.       *)
(***************************************************************************)
NetIds == {1, 2}

FeatureWeightAt(n, k) ==
    IF n = 1 THEN ((k * 7 + (k \div Layer1Size) * 3) % 23) - 11
    ELSE ToInt16(k * 7919 + 12345 * n)

FeatureBiasAt(n, i) ==
    IF n = 1 THEN (IF i % 2 = 0 THEN 4 ELSE 250)
    ELSE (IF i % 2 = 0 THEN 32767 - i ELSE i - 32768)

OutputWeightAt(n, j) ==
    IF n = 1 THEN ((j * 5) % 9) - 4
    ELSE (IF j % 2 = 0 THEN 32767 - j ELSE j - 32768)

OutputBiasAt(n) == IF n = 1 THEN 37 ELSE 32767

\* struct Network; the arrays are indexed from 0 as in the source
Network ==
    [n \in NetIds |->
        [featureWeights |-> [k \in 0..(InputSize * Layer1Size - 1) |-> FeatureWeightAt(n, k)],
         featureBiases  |-> [i \in 0..(Layer1Size - 1) |-> FeatureBiasAt(n, i)],
         outputWeights  |-> [j \in 0..(Layer1Size * 2 - 1) |-> OutputWeightAt(n, j)],
         outputBias     |-> OutputBiasAt(n)]]

(***************************************************************************)
(* Accumulator: two arrays of Layer1Size int16, indexed from 0             *)
(***************************************************************************)
Idx == 0..(Layer1Size - 1)

\* Accumulator::init(bias)
AccInit(bias) == [black |-> [i \in Idx |-> bias[i]], white |-> [i \in Idx |-> bias[i]]]

(***************************************************************************)
(* NnueState's private static helpers                                      *)
(***************************************************************************)
\* featureIndices without the vertical mirror of the black perspective
featureIndicesNoMirror(piece, sq) ==
    LET type == getType(piece)
        color == IF getColor(piece) = 1 THEN 0 ELSE 1
        notColor == IF color = 0 THEN 1 ELSE 0
        blackIdx == notColor * ColorStride + type * PieceStride + sq
        whiteIdx == color * ColorStride + type * PieceStride + sq
    IN  <<blackIdx, whiteIdx>>

\* featureIndices whose white-perspective index has no colour offset
featureIndicesColorBlind(piece, sq) ==
    LET type == getType(piece)
        color == IF getColor(piece) = 1 THEN 0 ELSE 1
        notColor == IF color = 0 THEN 1 ELSE 0
        blackIdx == notColor * ColorStride + type * PieceStride + BitXor(sq, 56)
        whiteIdx == type * PieceStride + sq
    IN  <<blackIdx, whiteIdx>>

\* featureIndices(piece, sq) -> <<blackIdx, whiteIdx>>
featureIndices(piece, sq) ==
    LET type == getType(piece)
        color == IF getColor(piece) = 1 THEN 0 ELSE 1
        notColor == IF color = 0 THEN 1 ELSE 0
        blackIdx == notColor * ColorStride + type * PieceStride + BitXor(sq, 56)
        whiteIdx == color * ColorStride + type * PieceStride + sq
    IN  <<blackIdx, whiteIdx>>

\* conversion to int16 that saturates instead of wrapping
SaturateInt16(x) == Clamp(x, -32768, 32767)

\* subtractAndAddToAll with the difference of the two rows held in an int16
\* that saturates
subtractAndAddNarrowDiff(input, delta, subOffset, addOffset) ==
    [i \in Idx |-> ToInt16(input[i] + SaturateInt16(delta[addOffset + i] - delta[subOffset + i]))]

\* input[i] += delta[addOffset + i] - delta[subOffset + i]: the difference is
\* formed in int, added in int, and the sum narrowed once to int16
subtractAndAddToAll(input, delta, subOffset, addOffset) ==
    [i \in Idx |-> ToInt16(input[i] + (delta[addOffset + i] - delta[subOffset + i]))]

\* addToAll with a saturating addition
addToAllSaturating(input, delta, offset) ==
    [i \in Idx |-> SaturateInt16(input[i] + delta[offset + i])]

\* input[i] += delta[offset + i]
addToAll(input, delta, offset) ==
    [i \in Idx |-> ToInt16(input[i] + delta[offset + i])]

\* subtractFromAll with a saturating subtraction
subtractFromAllSaturating(input, delta, offset) ==
    [i \in Idx |-> SaturateInt16(input[i] - delta[offset + i])]

\* input[i] -= delta[offset + i]
subtractFromAll(input, delta, offset) ==
    [i \in Idx |-> ToInt16(input[i] - delta[offset + i])]

\* static moveFeature(accumulator, piece, src, dst)
moveFeature(net, accumulator, piece, src, dst) ==
    LET s == featureIndices(piece, src)
        d == featureIndices(piece, dst)
    IN  [black |-> subtractAndAddToAll(accumulator.black, net.featureWeights,
                                       s[1] * Layer1Size, d[1] * Layer1Size),
         white |-> subtractAndAddToAll(accumulator.white, net.featureWeights,
                                       s[2] * Layer1Size, d[2] * Layer1Size)]

\* static activateFeature(accumulator, piece, sq)
activateFeature(net, accumulator, piece, sq) ==
    LET f == featureIndices(piece, sq)
    IN  [black |-> addToAll(accumulator.black, net.featureWeights, f[1] * Layer1Size),
         white |-> addToAll(accumulator.white, net.featureWeights, f[2] * Layer1Size)]

\* static deactivateFeature(accumulator, piece, sq)
deactivateFeature(net, accumulator, piece, sq) ==
    LET f == featureIndices(piece, sq)
    IN  [black |-> subtractFromAll(accumulator.black, net.featureWeights, f[1] * Layer1Size),
         white |-> subtractFromAll(accumulator.white, net.featureWeights, f[2] * Layer1Size)]

(***************************************************************************)
(* The forward pass.  Its arithmetic is std::int32_t; a signed overflow is *)
(* undefined behaviour.  What an overflowing evaluation returns depends on *)
(* the build: "wrap" keeps 32-bit two's-complement registers, "wide" keeps *)
(* the intermediate values in wider registers and narrows the quotient.    *)
(* Both are builds with NDEBUG defined, where assert() expands to nothing; *)
(* "debug" is the unoptimised build that keeps every assert() and whose    *)
(* arithmetic wraps.                                                       *)
(***************************************************************************)
Builds == {"debug", "wrap", "wide"}

\* a + b as this build computes it; the sums of the scaled width stay in range
\* on the wide build
AddInt32(b, x, y) == IF b = "wide" THEN x + y ELSE AddWrap32(x, y)

RECURSIVE forwardLoop(_, _, _, _, _, _)
\* one of the two loops of forward: sum += clamp(v[i], 0, 255) * weights[base + i]
forwardLoop(b, v, weights, base, i, sum) ==
    IF i = Layer1Size THEN sum
    ELSE LET activated == Clamp(v[i], 0, 255)
         IN  forwardLoop(b, v, weights, base, i + 1,
                         AddInt32(b, sum, activated * weights[base + i]))

\* forward(us, them, weights)
forward(b, us, them, weights) ==
    forwardLoop(b, them, weights, Layer1Size, 0,
                forwardLoop(b, us, weights, 0, 0, 0))

\* evaluate that takes the black perspective as "us" whatever stm is
evaluateIgnoresStm(b, net, accumulator, stm) ==
    LET output == forward(b, accumulator.black, accumulator.white, net.outputWeights)
        biased == AddInt32(b, output, net.outputBias)
    IN  IF b = "wide"
        THEN MulDivExact(biased, Scale, Q)
        ELSE TruncDiv(MulWrap32(biased, Scale), Q)

\* static evaluate(accumulator, stm): (output + outputBias) * Scale / Q
evaluate(b, net, accumulator, stm) ==
    LET output == IF stm = 0
                  THEN forward(b, accumulator.black, accumulator.white, net.outputWeights)
                  ELSE forward(b, accumulator.white, accumulator.black, net.outputWeights)
        biased == AddInt32(b, output, net.outputBias)
    IN  IF b = "wide"
        THEN MulDivExact(biased, Scale, Q)
        ELSE TruncDiv(MulWrap32(biased, Scale), Q)

(***************************************************************************)
(* Program state.  Two NnueState objects (a search thread owns one each).  *)
(* A pointer names the object whose storage it points into, the element,   *)
(* and whether that storage has been released since (a reallocation of a   *)
(* vector releases the storage every older pointer into it refers to).     *)
(***************************************************************************)
Inst == {1, 2}

\* the calls the model makes: a white pawn on a2 and a black king on h8 appear
\* and disappear; the pawn moves a2-a3, the king h8-g8
SampleFeatures == {<<White + 0, 8>>, <<5, 63>>}
SampleMoves == {<<White + 0, 8, 16>>, <<5, 63, 62>>}
ValidPieces == (0..5) \cup {White + ty : ty \in 0..5}
AllSquares == 0..63

MaxSteps == 6

VARIABLES
    g_nnue,              \* which weight store *g_nnue is
    build,               \* how this build treats int32 overflow and assert()
    m_accumulatorStack,  \* per object: the vector's elements, 1 = front
    capacity,            \* per object: the vector's capacity
    m_curr,              \* per object: the current pointer
    last,                \* per object: the last call on it (observation)
    shadow,              \* per object: per node, the multiset of active features
    saved,               \* per object: per covered node, its value when push covered it
    netPushes,           \* per object: pushes minus pops since the last reset
    own,                 \* per object: its stack and m_curr as its own last call left them
    ub,                  \* undefined behaviour has been executed
    aborted,             \* an assert() has failed: the program is terminated
    steps                \* calls made so far

vars == <<g_nnue, build, m_accumulatorStack, capacity, m_curr, last, shadow,
          saved, netPushes, own, ub, aborted, steps>>

Net == Network[g_nnue]

Depth(t) == Len(m_accumulatorStack[t])

NullPtr == [obj |-> 0, idx |-> 0, stale |-> FALSE]

\* &st[t].back()
BackOf(st, t) == [obj |-> t, idx |-> Len(st[t]), stale |-> FALSE]

\* the pointer may be dereferenced
Valid(st, p) == p.obj \in Inst /\ ~p.stale /\ p.idx >= 1 /\ p.idx <= Len(st[p.obj])

\* the storage of object t is released: pointers into it dangle
Invalidate(cur, t) ==
    [u \in Inst |-> IF cur[u].obj = t THEN [cur[u] EXCEPT !.stale = TRUE] ELSE cur[u]]

\* what a read through an invalid pointer may yield
Garbage == {AccInit([i \in Idx |-> 0]), AccInit(Net.featureBiases)}

\* the values *p may yield
ReadThrough(st, p) == IF Valid(st, p) THEN {st[p.obj][p.idx]} ELSE Garbage

\* *p = a
WriteThrough(st, p, a) == IF Valid(st, p) THEN [st EXCEPT ![p.obj][p.idx] = a] ELSE st

\* assert(m_curr == &m_accumulatorStack.back())
CurrIsBack(t) == Depth(t) >= 1 /\ m_curr[t] = BackOf(m_accumulatorStack, t)

\* assert() is compiled in
AssertsOn == build = "debug"

\* featureIndices: assert(piece != None); assert(sq != 64)
IndicesAsserted(piece, sq) == piece # None /\ sq # NoSquare

\* assert(offset + Size <= delta.size()) for the row of feature index idx
RowInRange(idx) == idx * Layer1Size + Layer1Size <= InputSize * Layer1Size

\* what an update that read past the end of featureWeights may leave in one
\* perspective
GarbageRows == {[i \in Idx |-> 0], [i \in Idx |-> Net.featureBiases[i]]}

(***************************************************************************)
(* Observation: the last call on each object, the stack it was made on,    *)
(* and, when it undoes the call right before it, the stack before both; of *)
(* a reset(), the depth it found and, when it repeats a reset(), the stack *)
(* the first one left.                                                     *)
(***************************************************************************)
NoCall ==
    [op |-> "none", piece |-> 0, src |-> 0, dst |-> 0, stm |-> 0, score |-> 0,
     pre |-> <<>>, paired |-> FALSE, rt |-> <<>>, restored |-> <<>>, found |-> 0]

Call(op, piece, src, dst, pre) ==
    [NoCall EXCEPT !.op = op, !.piece = piece, !.src = src, !.dst = dst, !.pre = pre]

\* the multiset of active features of one node: feature -> multiplicity,
\* features of multiplicity 0 left out
Bump(counts, f, d) ==
    LET old == IF f \in DOMAIN counts THEN counts[f] ELSE 0
        new == old + d
        rest == [g \in (DOMAIN counts) \ {f} |-> counts[g]]
    IN  IF new = 0 THEN rest ELSE [g \in (DOMAIN counts) \cup {f} |-> IF g = f THEN new ELSE counts[g]]

NoFeatures == [g \in {} |-> 0]

BumpTop(sh, f, d) == [sh EXCEPT ![Len(sh)] = Bump(@, f, d)]

\* what an object consists of
OwnState(t) == [stack |-> m_accumulatorStack[t], curr |-> m_curr[t]]

\* a failed assert() in a call on object t, st being the stacks as the call
\* leaves them: the program is terminated
Abort(t, call, st) ==
    /\ aborted' = TRUE
    /\ m_accumulatorStack' = st
    /\ last' = [last EXCEPT ![t] = call]
    /\ UNCHANGED <<g_nnue, build, capacity, m_curr, shadow, saved, netPushes, ub>>
    /\ own' = [own EXCEPT ![t] = OwnState(t)']

(***************************************************************************)
(* Construction: NnueState() reserves the capacity and leaves the stack    *)
(* empty and m_curr null.                                                  *)
(***************************************************************************)
Init ==
    /\ g_nnue \in NetIds
    /\ build \in Builds
    /\ m_accumulatorStack = [t \in Inst |-> <<>>]
    /\ capacity = [t \in Inst |-> ReservedCapacity]
    /\ m_curr = [t \in Inst |-> NullPtr]
    /\ last = [t \in Inst |-> NoCall]
    /\ shadow = [t \in Inst |-> <<>>]
    /\ saved = [t \in Inst |-> <<>>]
    /\ netPushes = [t \in Inst |-> 0]
    /\ own = [t \in Inst |-> OwnState(t)]
    /\ ub = FALSE
    /\ aborted = FALSE
    /\ steps = 0

(***************************************************************************)
(* The public operations of NnueState                                      *)
(***************************************************************************)
\* reset() without the clear(): the new root is appended to the old nodes
ResetWithoutClear(t) ==
    LET grows == Depth(t) = capacity[t]
    IN  /\ m_accumulatorStack' = [m_accumulatorStack EXCEPT ![t] = Append(@, AccInit(Net.featureBiases))]
        /\ capacity' = [capacity EXCEPT ![t] = IF grows THEN (IF @ = 0 THEN 1 ELSE 2 * @) ELSE @]
        /\ m_curr' = [(IF grows THEN Invalidate(m_curr, t) ELSE m_curr)
                        EXCEPT ![t] = BackOf(m_accumulatorStack', t)]
        /\ last' = [last EXCEPT ![t] =
                       [Call("reset", 0, 0, 0, <<>>) EXCEPT
                           !.found = Depth(t),
                           !.paired = (last[t].op = "reset"),
                           !.rt = IF last[t].op = "reset" THEN m_accumulatorStack[t] ELSE <<>>]]
        /\ shadow' = [shadow EXCEPT ![t] = <<NoFeatures>>]
        /\ saved' = [saved EXCEPT ![t] = <<>>]
        /\ netPushes' = [netPushes EXCEPT ![t] = 0]
        /\ UNCHANGED <<g_nnue, build, aborted, ub>>
        /\ own' = [own EXCEPT ![t] = OwnState(t)']

\* reset(): clear(), emplace_back(), init(featureBiases)
Reset(t) ==
    /\ m_accumulatorStack' = [m_accumulatorStack EXCEPT ![t] = <<AccInit(Net.featureBiases)>>]
    /\ capacity' = [capacity EXCEPT ![t] = IF @ = 0 THEN 1 ELSE @]
    /\ m_curr' = [(IF capacity[t] = 0 THEN Invalidate(m_curr, t) ELSE m_curr)
                    EXCEPT ![t] = BackOf(m_accumulatorStack', t)]
    /\ last' = [last EXCEPT ![t] =
                   [Call("reset", 0, 0, 0, <<>>) EXCEPT
                       !.found = Depth(t),
                       !.paired = (last[t].op = "reset"),
                       !.rt = IF last[t].op = "reset" THEN m_accumulatorStack[t] ELSE <<>>]]
    /\ shadow' = [shadow EXCEPT ![t] = <<NoFeatures>>]
    /\ saved' = [saved EXCEPT ![t] = <<>>]
    /\ netPushes' = [netPushes EXCEPT ![t] = 0]
    /\ UNCHANGED <<g_nnue, build, aborted, ub>>
    /\ own' = [own EXCEPT ![t] = OwnState(t)']

\* push() without m_curr = &back(): m_curr stays on the covered node
PushKeepsCurr(t) ==
    \E v \in ReadThrough(m_accumulatorStack, m_curr[t]) :
        LET grows == Depth(t) = capacity[t]
        IN  /\ m_accumulatorStack' = [m_accumulatorStack EXCEPT ![t] = Append(@, v)]
            /\ capacity' = [capacity EXCEPT ![t] = IF grows THEN (IF @ = 0 THEN 1 ELSE 2 * @) ELSE @]
            /\ m_curr' = (IF grows THEN Invalidate(m_curr, t) ELSE m_curr)
            /\ last' = [last EXCEPT ![t] = Call("push", 0, 0, 0, m_accumulatorStack[t])]
            /\ shadow' = [shadow EXCEPT ![t] = Append(@, @[Len(@)])]
            /\ saved' = [saved EXCEPT ![t] = Append(@, m_accumulatorStack[t][Depth(t)])]
            /\ netPushes' = [netPushes EXCEPT ![t] = @ + 1]
            /\ ub' = (ub \/ ~Valid(m_accumulatorStack, m_curr[t]))
            /\ UNCHANGED <<g_nnue, build, aborted>>
            /\ own' = [own EXCEPT ![t] = OwnState(t)']

\* push(): push_back(*m_curr) - the vector copies the argument before it
\* releases the old storage - then m_curr = &back()
Push(t) ==
    IF AssertsOn /\ ~CurrIsBack(t)
    THEN Abort(t, Call("push", 0, 0, 0, m_accumulatorStack[t]), m_accumulatorStack)
    ELSE
    \E v \in ReadThrough(m_accumulatorStack, m_curr[t]) :
        LET grows == Depth(t) = capacity[t]
        IN  /\ m_accumulatorStack' = [m_accumulatorStack EXCEPT ![t] = Append(@, v)]
            /\ capacity' = [capacity EXCEPT ![t] = IF grows THEN (IF @ = 0 THEN 1 ELSE 2 * @) ELSE @]
            /\ m_curr' = [(IF grows THEN Invalidate(m_curr, t) ELSE m_curr)
                            EXCEPT ![t] = BackOf(m_accumulatorStack', t)]
            /\ last' = [last EXCEPT ![t] = Call("push", 0, 0, 0, m_accumulatorStack[t])]
            /\ shadow' = [shadow EXCEPT ![t] =
                             Append(@, IF @ = <<>> THEN NoFeatures ELSE @[Len(@)])]
            /\ saved' = [saved EXCEPT ![t] =
                            IF Depth(t) = 0 THEN @ ELSE Append(@, m_accumulatorStack[t][Depth(t)])]
            /\ netPushes' = [netPushes EXCEPT ![t] = @ + 1]
            /\ ub' = (ub \/ ~Valid(m_accumulatorStack, m_curr[t]))
            /\ UNCHANGED <<g_nnue, build, aborted>>
            /\ own' = [own EXCEPT ![t] = OwnState(t)']

\* pop() without m_curr = &back(): m_curr stays on the removed node
PopKeepsCurr(t) ==
    /\ m_accumulatorStack' = [m_accumulatorStack EXCEPT ![t] = SubSeq(@, 1, Len(@) - 1)]
    /\ last' = [last EXCEPT ![t] =
                   [Call("pop", 0, 0, 0, m_accumulatorStack[t]) EXCEPT
                       !.paired = (last[t].op = "push"),
                       !.rt = IF last[t].op = "push" THEN last[t].pre ELSE <<>>,
                       !.restored = IF saved[t] = <<>> THEN <<>> ELSE <<saved[t][Len(saved[t])]>>]]
    /\ shadow' = [shadow EXCEPT ![t] = SubSeq(@, 1, Len(@) - 1)]
    /\ saved' = [saved EXCEPT ![t] = IF @ = <<>> THEN <<>> ELSE SubSeq(@, 1, Len(@) - 1)]
    /\ netPushes' = [netPushes EXCEPT ![t] = @ - 1]
    /\ ub' = (ub \/ Depth(t) <= 1)
    /\ UNCHANGED <<g_nnue, build, aborted, capacity, m_curr>>
    /\ own' = [own EXCEPT ![t] = OwnState(t)']

\* pop(): pop_back(), m_curr = &back().  The code has no guard: at depth 1 it
\* leaves the vector empty and takes back() of an empty vector; pop_back() on
\* an empty vector is undefined too, and the sequence stays empty
Pop(t) ==
    /\ m_accumulatorStack' = [m_accumulatorStack EXCEPT ![t] = SubSeq(@, 1, Len(@) - 1)]
    /\ m_curr' = [m_curr EXCEPT ![t] = BackOf(m_accumulatorStack', t)]
    /\ last' = [last EXCEPT ![t] =
                   [Call("pop", 0, 0, 0, m_accumulatorStack[t]) EXCEPT
                       !.paired = (last[t].op = "push"),
                       !.rt = IF last[t].op = "push" THEN last[t].pre ELSE <<>>,
                       !.restored = IF saved[t] = <<>> THEN <<>> ELSE <<saved[t][Len(saved[t])]>>]]
    /\ shadow' = [shadow EXCEPT ![t] = SubSeq(@, 1, Len(@) - 1)]
    /\ saved' = [saved EXCEPT ![t] = IF @ = <<>> THEN <<>> ELSE SubSeq(@, 1, Len(@) - 1)]
    /\ netPushes' = [netPushes EXCEPT ![t] = @ - 1]
    /\ ub' = (ub \/ Depth(t) <= 1)
    /\ UNCHANGED <<g_nnue, build, aborted, capacity>>
    /\ own' = [own EXCEPT ![t] = OwnState(t)']

\* moveFeature(piece, src, dst).  With assert() compiled in, the call stops at
\* the first assertion that fails: m_curr, the two featureIndices calls, the
\* bounds of the black rows, then - the black perspective already updated -
\* the bounds of the white rows.  Without, rows past the end of featureWeights
\* are read
MoveFeature(t, piece, src, dst) ==
    LET s == featureIndices(piece, src)
        d == featureIndices(piece, dst)
        fw == Net.featureWeights
        call == Call("move", piece, src, dst, m_accumulatorStack[t])
        blackOk == RowInRange(s[1]) /\ RowInRange(d[1])
        whiteOk == RowInRange(s[2]) /\ RowInRange(d[2])
    IN  IF AssertsOn /\ (~CurrIsBack(t) \/ ~IndicesAsserted(piece, src)
                            \/ ~IndicesAsserted(piece, dst) \/ ~blackOk)
        THEN Abort(t, call, m_accumulatorStack)
        ELSE IF AssertsOn /\ ~whiteOk
        THEN Abort(t, call,
                   [m_accumulatorStack EXCEPT ![t][Depth(t)].black =
                       subtractAndAddToAll(@, fw, s[1] * Layer1Size, d[1] * Layer1Size)])
        ELSE
        \E v \in ReadThrough(m_accumulatorStack, m_curr[t]) :
            /\ IF blackOk /\ whiteOk
               THEN /\ m_accumulatorStack' = WriteThrough(m_accumulatorStack, m_curr[t],
                                                          moveFeature(Net, v, piece, src, dst))
                    /\ ub' = (ub \/ ~Valid(m_accumulatorStack, m_curr[t]))
               ELSE /\ \E gb, gw \in GarbageRows :
                          m_accumulatorStack' =
                              WriteThrough(m_accumulatorStack, m_curr[t],
                                  [black |-> IF blackOk
                                             THEN subtractAndAddToAll(v.black, fw, s[1] * Layer1Size,
                                                                      d[1] * Layer1Size)
                                             ELSE gb,
                                   white |-> IF whiteOk
                                             THEN subtractAndAddToAll(v.white, fw, s[2] * Layer1Size,
                                                                      d[2] * Layer1Size)
                                             ELSE gw])
                    /\ ub' = TRUE
            /\ last' = [last EXCEPT ![t] = call]
            /\ shadow' = [shadow EXCEPT ![t] =
                             IF @ = <<>> THEN @
                             ELSE BumpTop(BumpTop(@, <<piece, src>>, -1), <<piece, dst>>, 1)]
            /\ UNCHANGED <<g_nnue, build, aborted, capacity, m_curr, saved, netPushes>>
            /\ own' = [own EXCEPT ![t] = OwnState(t)']

\* activateFeature(piece, sq), its assertions in the order of moveFeature's
ActivateFeature(t, piece, sq) ==
    LET f == featureIndices(piece, sq)
        fw == Net.featureWeights
        call == Call("activate", piece, sq, sq, m_accumulatorStack[t])
    IN  IF AssertsOn /\ (~CurrIsBack(t) \/ ~IndicesAsserted(piece, sq) \/ ~RowInRange(f[1]))
        THEN Abort(t, call, m_accumulatorStack)
        ELSE IF AssertsOn /\ ~RowInRange(f[2])
        THEN Abort(t, call,
                   [m_accumulatorStack EXCEPT ![t][Depth(t)].black =
                       addToAll(@, fw, f[1] * Layer1Size)])
        ELSE
        \E v \in ReadThrough(m_accumulatorStack, m_curr[t]) :
            /\ IF RowInRange(f[1]) /\ RowInRange(f[2])
               THEN /\ m_accumulatorStack' = WriteThrough(m_accumulatorStack, m_curr[t],
                                                          activateFeature(Net, v, piece, sq))
                    /\ ub' = (ub \/ ~Valid(m_accumulatorStack, m_curr[t]))
               ELSE /\ \E gb, gw \in GarbageRows :
                          m_accumulatorStack' =
                              WriteThrough(m_accumulatorStack, m_curr[t],
                                  [black |-> IF RowInRange(f[1])
                                             THEN addToAll(v.black, fw, f[1] * Layer1Size)
                                             ELSE gb,
                                   white |-> IF RowInRange(f[2])
                                             THEN addToAll(v.white, fw, f[2] * Layer1Size)
                                             ELSE gw])
                    /\ ub' = TRUE
            /\ last' = [last EXCEPT ![t] = call]
            /\ shadow' = [shadow EXCEPT ![t] =
                             IF @ = <<>> THEN @ ELSE BumpTop(@, <<piece, sq>>, 1)]
            /\ UNCHANGED <<g_nnue, build, aborted, capacity, m_curr, saved, netPushes>>
            /\ own' = [own EXCEPT ![t] = OwnState(t)']

\* deactivateFeature(piece, sq), its assertions in the order of moveFeature's
DeactivateFeature(t, piece, sq) ==
    LET f == featureIndices(piece, sq)
        fw == Net.featureWeights
        undoes == last[t].op = "activate" /\ last[t].piece = piece /\ last[t].src = sq
        call == [Call("deactivate", piece, sq, sq, m_accumulatorStack[t]) EXCEPT
                    !.paired = undoes,
                    !.rt = IF undoes THEN last[t].pre ELSE <<>>]
    IN  IF AssertsOn /\ (~CurrIsBack(t) \/ ~IndicesAsserted(piece, sq) \/ ~RowInRange(f[1]))
        THEN Abort(t, call, m_accumulatorStack)
        ELSE IF AssertsOn /\ ~RowInRange(f[2])
        THEN Abort(t, call,
                   [m_accumulatorStack EXCEPT ![t][Depth(t)].black =
                       subtractFromAll(@, fw, f[1] * Layer1Size)])
        ELSE
        \E v \in ReadThrough(m_accumulatorStack, m_curr[t]) :
            /\ IF RowInRange(f[1]) /\ RowInRange(f[2])
               THEN /\ m_accumulatorStack' = WriteThrough(m_accumulatorStack, m_curr[t],
                                                          deactivateFeature(Net, v, piece, sq))
                    /\ ub' = (ub \/ ~Valid(m_accumulatorStack, m_curr[t]))
               ELSE /\ \E gb, gw \in GarbageRows :
                          m_accumulatorStack' =
                              WriteThrough(m_accumulatorStack, m_curr[t],
                                  [black |-> IF RowInRange(f[1])
                                             THEN subtractFromAll(v.black, fw, f[1] * Layer1Size)
                                             ELSE gb,
                                   white |-> IF RowInRange(f[2])
                                             THEN subtractFromAll(v.white, fw, f[2] * Layer1Size)
                                             ELSE gw])
                    /\ ub' = TRUE
            /\ last' = [last EXCEPT ![t] = call]
            /\ shadow' = [shadow EXCEPT ![t] =
                             IF @ = <<>> THEN @ ELSE BumpTop(@, <<piece, sq>>, -1)]
            /\ UNCHANGED <<g_nnue, build, aborted, capacity, m_curr, saved, netPushes>>
            /\ own' = [own EXCEPT ![t] = OwnState(t)']

\* evaluate(stm) that clips the hidden values in place before the dot products
EvaluateClipsInPlace(t, stm) ==
    \E v \in ReadThrough(m_accumulatorStack, m_curr[t]) :
        /\ m_accumulatorStack' =
              WriteThrough(m_accumulatorStack, m_curr[t],
                           [black |-> [i \in Idx |-> Clamp(v.black[i], 0, 255)],
                            white |-> [i \in Idx |-> Clamp(v.white[i], 0, 255)]])
        /\ last' = [last EXCEPT ![t] =
                       [Call("evaluate", 0, 0, 0, m_accumulatorStack[t]) EXCEPT
                           !.stm = stm, !.score = evaluate(build, Net, v, stm)]]
        /\ ub' = (ub \/ ~Valid(m_accumulatorStack, m_curr[t]))
        /\ UNCHANGED <<g_nnue, build, aborted, capacity, m_curr, shadow, saved, netPushes>>
        /\ own' = [own EXCEPT ![t] = OwnState(t)']

\* evaluate(stm) const
Evaluate(t, stm) ==
    IF AssertsOn /\ ~CurrIsBack(t)
    THEN Abort(t, [Call("evaluate", 0, 0, 0, m_accumulatorStack[t]) EXCEPT !.stm = stm],
               m_accumulatorStack)
    ELSE
    \E v \in ReadThrough(m_accumulatorStack, m_curr[t]) :
        /\ last' = [last EXCEPT ![t] =
                       [Call("evaluate", 0, 0, 0, m_accumulatorStack[t]) EXCEPT
                           !.stm = stm, !.score = evaluate(build, Net, v, stm)]]
        /\ ub' = (ub \/ ~Valid(m_accumulatorStack, m_curr[t]))
        /\ UNCHANGED <<g_nnue, build, aborted, m_accumulatorStack, capacity, m_curr, shadow,
                       saved, netPushes>>
        /\ own' = [own EXCEPT ![t] = OwnState(t)']

\* NnueState(const NnueState &other) with m_curr copied from other, as the
\* defaulted copy constructor would
CopyConstructKeepsCurr(t, u) ==
    /\ t # u
    /\ m_accumulatorStack' = [m_accumulatorStack EXCEPT ![t] = m_accumulatorStack[u]]
    /\ capacity' = [capacity EXCEPT ![t] =
                       IF Depth(u) > ReservedCapacity THEN Depth(u) ELSE ReservedCapacity]
    /\ m_curr' = [Invalidate(m_curr, t) EXCEPT ![t] = m_curr[u]]
    /\ last' = [last EXCEPT ![t] = [Call("copy", 0, u, u, <<>>) EXCEPT !.rt = m_accumulatorStack[u]]]
    /\ shadow' = [shadow EXCEPT ![t] = shadow[u]]
    /\ saved' = [saved EXCEPT ![t] = saved[u]]
    /\ netPushes' = [netPushes EXCEPT ![t] = netPushes[u]]
    /\ ub' = (ub \/ Depth(u) = 0)
    /\ UNCHANGED <<g_nnue, build, aborted>>
    /\ own' = [own EXCEPT ![t] = OwnState(t)']

\* NnueState(const NnueState &other): the object in slot t is constructed as a
\* copy of u: a new vector holding u's elements, reserve(256), m_curr = &back()
CopyConstruct(t, u) ==
    /\ t # u
    /\ m_accumulatorStack' = [m_accumulatorStack EXCEPT ![t] = m_accumulatorStack[u]]
    /\ capacity' = [capacity EXCEPT ![t] =
                       IF Depth(u) > ReservedCapacity THEN Depth(u) ELSE ReservedCapacity]
    /\ m_curr' = [Invalidate(m_curr, t) EXCEPT ![t] = BackOf(m_accumulatorStack', t)]
    /\ last' = [last EXCEPT ![t] = [Call("copy", 0, u, u, <<>>) EXCEPT !.rt = m_accumulatorStack[u]]]
    /\ shadow' = [shadow EXCEPT ![t] = shadow[u]]
    /\ saved' = [saved EXCEPT ![t] = saved[u]]
    /\ netPushes' = [netPushes EXCEPT ![t] = netPushes[u]]
    /\ ub' = (ub \/ Depth(u) = 0)
    /\ UNCHANGED <<g_nnue, build, aborted>>
    /\ own' = [own EXCEPT ![t] = OwnState(t)']

\* operator= with m_curr assigned from other, as the defaulted copy assignment
\* would
CopyAssignKeepsCurr(t, u) ==
    LET self == t = u
        grows == ~self /\ Depth(u) > capacity[t]
        cap1 == IF grows THEN Depth(u) ELSE capacity[t]
        reserves == ~self /\ cap1 < ReservedCapacity
    IN  /\ m_accumulatorStack' = [m_accumulatorStack EXCEPT ![t] = m_accumulatorStack[u]]
        /\ capacity' = [capacity EXCEPT ![t] = IF reserves THEN ReservedCapacity ELSE cap1]
        /\ m_curr' = IF self THEN m_curr
                     ELSE [(IF grows \/ reserves THEN Invalidate(m_curr, t) ELSE m_curr)
                             EXCEPT ![t] = m_curr[u]]
        /\ last' = [last EXCEPT ![t] =
                       [Call("assign", 0, u, u, m_accumulatorStack[t]) EXCEPT !.rt = m_accumulatorStack[u]]]
        /\ shadow' = [shadow EXCEPT ![t] = shadow[u]]
        /\ saved' = [saved EXCEPT ![t] = saved[u]]
        /\ netPushes' = [netPushes EXCEPT ![t] = netPushes[u]]
        /\ ub' = (ub \/ (~self /\ Depth(u) = 0))
        /\ UNCHANGED <<g_nnue, build, aborted>>
        /\ own' = [own EXCEPT ![t] = OwnState(t)']

\* operator=(const NnueState &other): nothing on self-assignment; else the
\* vector is assigned (new storage only if u's elements do not fit),
\* reserve(256), m_curr = &back()
CopyAssign(t, u) ==
    LET self == t = u
        grows == ~self /\ Depth(u) > capacity[t]
        cap1 == IF grows THEN Depth(u) ELSE capacity[t]
        reserves == ~self /\ cap1 < ReservedCapacity
    IN  /\ m_accumulatorStack' = [m_accumulatorStack EXCEPT ![t] = m_accumulatorStack[u]]
        /\ capacity' = [capacity EXCEPT ![t] = IF reserves THEN ReservedCapacity ELSE cap1]
        /\ m_curr' = IF self THEN m_curr
                     ELSE [(IF grows \/ reserves THEN Invalidate(m_curr, t) ELSE m_curr)
                             EXCEPT ![t] = BackOf(m_accumulatorStack', t)]
        /\ last' = [last EXCEPT ![t] =
                       [Call("assign", 0, u, u, m_accumulatorStack[t]) EXCEPT !.rt = m_accumulatorStack[u]]]
        /\ shadow' = [shadow EXCEPT ![t] = shadow[u]]
        /\ saved' = [saved EXCEPT ![t] = saved[u]]
        /\ netPushes' = [netPushes EXCEPT ![t] = netPushes[u]]
        /\ ub' = (ub \/ (~self /\ Depth(u) = 0))
        /\ UNCHANGED <<g_nnue, build, aborted>>
        /\ own' = [own EXCEPT ![t] = OwnState(t)']

(***************************************************************************)
(* One object, used as the board uses it: reset first, pop only above the  *)
(* root, valid pieces and squares; at most MaxSteps calls and MaxDepth     *)
(* nodes.                                                                  *)
(***************************************************************************)
Active(t) == Depth(t) >= 1

\* one more call of the running program, within the budget of n calls
Tick(n) == ~aborted /\ steps < n /\ steps' = steps + 1

Next ==
    \E t \in {1} :
        \/ Tick(MaxSteps) /\ Reset(t)
        \/ Tick(MaxSteps) /\ Active(t) /\ Depth(t) < MaxDepth /\ Push(t)
        \/ Tick(MaxSteps) /\ Depth(t) > 1 /\ Pop(t)
        \/ Tick(MaxSteps) /\ Active(t) /\ \E f \in SampleFeatures : ActivateFeature(t, f[1], f[2])
        \/ Tick(MaxSteps) /\ Active(t) /\ \E f \in SampleFeatures : DeactivateFeature(t, f[1], f[2])
        \/ Tick(MaxSteps) /\ Active(t) /\ \E m \in SampleMoves : MoveFeature(t, m[1], m[2], m[3])
        \/ Tick(MaxSteps) /\ Active(t) /\ \E stm \in {0, 1} : Evaluate(t, stm)

Spec == Init /\ [][Next]_vars

(***************************************************************************)
(* The same object with pop() called at any depth the code accepts, the    *)
(* root included.                                                          *)
(***************************************************************************)
NextAnyPop ==
    \E t \in {1} :
        \/ Tick(MaxSteps) /\ Reset(t)
        \/ Tick(MaxSteps) /\ Active(t) /\ Depth(t) < MaxDepth /\ Push(t)
        \/ Tick(MaxSteps) /\ Active(t) /\ Pop(t)
        \/ Tick(MaxSteps) /\ Active(t) /\ \E f \in SampleFeatures : ActivateFeature(t, f[1], f[2])
        \/ Tick(MaxSteps) /\ Active(t) /\ \E f \in SampleFeatures : DeactivateFeature(t, f[1], f[2])
        \/ Tick(MaxSteps) /\ Active(t) /\ \E m \in SampleMoves : MoveFeature(t, m[1], m[2], m[3])
        \/ Tick(MaxSteps) /\ Active(t) /\ \E stm \in {0, 1} : Evaluate(t, stm)

SpecAnyPop == Init /\ [][NextAnyPop]_vars


(***************************************************************************)
(* Shared vocabulary of the properties                                     *)
(***************************************************************************)
\* the Accumulator m_curr designates
CurrentAcc(t) == m_accumulatorStack[m_curr[t].obj][m_curr[t].idx]

Top(st) == st[Len(st)]

\* an object that has been reset (or copied from one that has)
Started(t) == last[t].op # "none"

RECURSIVE SumRows(_, _, _, _, _)
\* the sum, over the features of the multiset, of multiplicity * weight of
\* hidden unit i in the feature's row (persp: 1 = black, 2 = white)
SumRows(net, counts, todo, persp, i) ==
    IF todo = {} THEN 0
    ELSE LET f == CHOOSE g \in todo : TRUE
         IN  counts[f] * net.featureWeights[featureIndices(f[1], f[2])[persp] * Layer1Size + i]
             + SumRows(net, counts, todo \ {f}, persp, i)

\* the accumulator recomputed from scratch for a multiset of active features
Recompute(net, counts) ==
    [black |-> [i \in Idx |-> ToInt16(net.featureBiases[i] + SumRows(net, counts, DOMAIN counts, 1, i))],
     white |-> [i \in Idx |-> ToInt16(net.featureBiases[i] + SumRows(net, counts, DOMAIN counts, 2, i))]]

\* an int sum that does not fit int16
Wraps(x) == x > 32767 \/ x < -32768

(***************************************************************************)
(* C1  Incremental equals recompute: every Accumulator of the stack, the   *)
(* current one and every lower one, equals featureBiases plus the sum of   *)
(* the featureWeights rows of the features active at that node, modulo     *)
(* 2^16, in both perspectives.                                             *)
(***************************************************************************)
IncrementalEqualsRecompute ==
    /\ ~ub
    /\ \A t \in Inst :
        /\ Len(shadow[t]) = Depth(t)
        /\ \A k \in 1..Depth(t) : m_accumulatorStack[t][k] = Recompute(Net, shadow[t][k])

\* a two-node stack, both nodes with their own features, the top one past a
\* wrap-around of the int16 sum
IncrementalWitness ==
    /\ Depth(1) = 2
    /\ shadow[1][1] # NoFeatures
    /\ shadow[1][2] # shadow[1][1]
    /\ shadow[1][2] # NoFeatures
    /\ \E i \in Idx :
          Wraps(Net.featureBiases[i] + SumRows(Net, shadow[1][2], DOMAIN shadow[1][2], 2, i))

(***************************************************************************)
(* C2  Push/pop round trip: push() followed immediately by pop() leaves    *)
(* the depth unchanged and the current Accumulator equal to its value      *)
(* before the push, also when the push grew the storage past the reserved  *)
(* capacity.                                                               *)
(***************************************************************************)
PushPopRoundTrip ==
    \A t \in Inst :
        (last[t].op = "pop" /\ last[t].paired) =>
            /\ ~ub
            /\ Valid(m_accumulatorStack, m_curr[t])
            /\ Depth(t) = Len(last[t].rt)
            /\ CurrentAcc(t) = Top(last[t].rt)
            /\ m_accumulatorStack[t] = last[t].rt

\* the round trip whose push found the reserved storage full and grew it
PushPopWitness ==
    /\ last[1].op = "pop"
    /\ last[1].paired
    /\ Len(last[1].rt) = ReservedCapacity
    /\ capacity[1] > ReservedCapacity
    /\ shadow[1][Depth(1)] # NoFeatures

(***************************************************************************)
(* C3  Restoration on retraction: whatever is done after a push() changes  *)
(* only the nodes at or above the pushed one; every covered node keeps the *)
(* value it had when it was covered, and the matching pop() makes the      *)
(* current Accumulator equal to the value it had just before that push.    *)
(***************************************************************************)
RestorationOnRetraction ==
    \A t \in Inst :
        Started(t) =>
            /\ ~ub
            /\ Len(saved[t]) = Depth(t) - 1
            /\ \A k \in 1..(Depth(t) - 1) : m_accumulatorStack[t][k] = saved[t][k]
            /\ last[t].op = "pop" =>
                  /\ Valid(m_accumulatorStack, m_curr[t])
                  /\ last[t].restored = <<CurrentAcc(t)>>

\* the inner pop of two nested push/pop pairs, both pushed nodes modified
RestorationWitness ==
    /\ last[1].op = "pop"
    /\ ~last[1].paired
    /\ Depth(1) = 2
    /\ Top(last[1].pre) # CurrentAcc(1)
    /\ CurrentAcc(1) # m_accumulatorStack[1][1]

(***************************************************************************)
(* C4  Depth invariant: the depth is 1 right after reset(), 1 + pushes -   *)
(* pops since the last reset, never below 1 in any state reached after a   *)
(* reset(); push adds one, pop removes one, the feature updates and        *)
(* evaluate leave it alone.                                                *)
(***************************************************************************)
DepthInvariant ==
    \A t \in Inst :
        Started(t) =>
            /\ Depth(t) >= 1
            /\ Depth(t) = 1 + netPushes[t]
            /\ last[t].op = "reset" => Depth(t) = 1
            /\ last[t].op = "push" => Depth(t) = Len(last[t].pre) + 1
            /\ last[t].op = "pop" => Depth(t) = Len(last[t].pre) - 1
            /\ last[t].op \in {"activate", "deactivate", "move", "evaluate"} =>
                  Depth(t) = Len(last[t].pre)

\* a pop that leaves two nodes: reset, two pushes, one more push or update, pop
DepthWitness ==
    /\ last[1].op = "pop"
    /\ Depth(1) = 2
    /\ netPushes[1] = 1
    /\ steps >= 4


(***************************************************************************)
(* C6  Evaluate result: evaluate(stm) returns                              *)
(*   (sum_i clamp(us[i], 0, 255) * outputWeights[i]                        *)
(*    + sum_i clamp(them[i], 0, 255) * outputWeights[hidden + i]           *)
(*    + outputBias) * 400 / 16320, truncated toward zero,                  *)
(* with (us, them) = (black, white) for stm = 0 and (white, black)         *)
(* otherwise - for every Accumulator and every weight store.               *)
(***************************************************************************)
RECURSIVE ClaimedDot(_, _, _, _)
\* sum over i < n of clamp(v[i], 0, 255) * weights[base + i], exact
ClaimedDot(v, weights, base, n) ==
    IF n = 0 THEN 0
    ELSE Clamp(v[n - 1], 0, 255) * weights[base + n - 1] + ClaimedDot(v, weights, base, n - 1)

\* the mathematically exact value before the rescaling
ClaimedSum(net, acc, stm) ==
    LET us == IF stm = 0 THEN acc.black ELSE acc.white
        them == IF stm = 0 THEN acc.white ELSE acc.black
    IN  ClaimedDot(us, net.outputWeights, 0, Layer1Size)
        + ClaimedDot(them, net.outputWeights, Layer1Size, Layer1Size)
        + net.outputBias

ClaimedScore(net, acc, stm) == MulDivExact(ClaimedSum(net, acc, stm), Scale, Q)

\* C6 as claimed: every evaluate returns the exact value of the formula
EvaluateReturnsFormula ==
    \A t \in Inst :
        last[t].op = "evaluate" =>
            last[t].score = ClaimedScore(Net, Top(last[t].pre), last[t].stm)

\* |x| * Scale fits int32
ProductInRange(x) == x <= 5368709 /\ x >= -5368709

\* what does hold: the formula is returned whenever (output + outputBias) * 400
\* stays inside the int32 range, and the two calls swap the perspectives
EvaluateReturnsFormulaInRange ==
    \A t \in Inst :
        (last[t].op = "evaluate"
            /\ ProductInRange(ClaimedSum(Net, Top(last[t].pre), last[t].stm))) =>
            /\ last[t].score = ClaimedScore(Net, Top(last[t].pre), last[t].stm)
            /\ last[t].score =
                  ClaimedScore(Net, [black |-> Top(last[t].pre).white,
                                     white |-> Top(last[t].pre).black], 1 - last[t].stm)

\* an evaluation inside the range whose two perspectives differ, some hidden
\* value strictly inside the clipping range
EvaluateInRangeWitness ==
    /\ last[1].op = "evaluate"
    /\ ProductInRange(ClaimedSum(Net, Top(last[1].pre), last[1].stm))
    /\ Top(last[1].pre).black # Top(last[1].pre).white
    /\ \E i \in Idx : Top(last[1].pre).black[i] > 0 /\ Top(last[1].pre).black[i] < 255
    /\ last[1].score # 0

(***************************************************************************)
(* C7  Additive inverse: activateFeature(p, s) followed by                 *)
(* deactivateFeature(p, s) restores both vectors of the current            *)
(* Accumulator exactly, also when the addition wrapped around the int16    *)
(* range, and changes nothing else in the stack.                           *)
(***************************************************************************)
ActivateDeactivateInverse ==
    \A t \in Inst :
        (last[t].op = "deactivate" /\ last[t].paired) =>
            /\ ~ub
            /\ Valid(m_accumulatorStack, m_curr[t])
            /\ CurrentAcc(t) = Top(last[t].rt)
            /\ m_accumulatorStack[t] = last[t].rt

\* the pair whose addition wrapped around, made above a covered node
InverseWitness ==
    /\ last[1].op = "deactivate"
    /\ last[1].paired
    /\ Depth(1) = 2
    /\ \E i \in Idx :
          Wraps(Top(last[1].rt).white[i]
                + Net.featureWeights[featureIndices(last[1].piece, last[1].src)[2] * Layer1Size + i])

(***************************************************************************)
(* C8  Move fusion equivalence: for src # dst, moveFeature(p, src, dst)    *)
(* leaves the current Accumulator identical, in both perspectives, to      *)
(* deactivateFeature(p, src) followed by activateFeature(p, dst), also     *)
(* when the two-step form wraps around where the fused one narrows once.   *)
(***************************************************************************)
MoveFusionEquivalence ==
    \A t \in Inst :
        (last[t].op = "move" /\ last[t].src # last[t].dst) =>
            /\ ~ub
            /\ Valid(m_accumulatorStack, m_curr[t])
            /\ CurrentAcc(t) =
                  activateFeature(Net,
                      deactivateFeature(Net, Top(last[t].pre), last[t].piece, last[t].src),
                      last[t].piece, last[t].dst)
            /\ \A k \in 1..(Depth(t) - 1) : m_accumulatorStack[t][k] = last[t].pre[k]

\* a move whose weight difference does not fit int16 and whose two-step form
\* wraps around at the subtraction
MoveFusionWitness ==
    /\ last[1].op = "move"
    /\ last[1].src # last[1].dst
    /\ \E i \in Idx :
          LET fw == Net.featureWeights
              s == featureIndices(last[1].piece, last[1].src)[2] * Layer1Size + i
              d == featureIndices(last[1].piece, last[1].dst)[2] * Layer1Size + i
          IN  /\ Wraps(fw[d] - fw[s])
              /\ Wraps(Top(last[1].pre).white[i] - fw[s])


(***************************************************************************)
(* The feature indexer on its whole domain: after a reset(), one           *)
(* activateFeature of any valid piece on any square.                       *)
(***************************************************************************)
NextIndices ==
    \E t \in {1} :
        \/ Reset(t) /\ UNCHANGED steps
        \/ /\ last[t].op = "reset"
           /\ \E p \in ValidPieces, s \in AllSquares : ActivateFeature(t, p, s)
           /\ UNCHANGED steps

SpecIndices == Init /\ [][NextIndices]_vars

\* the piece encoding of the board: type in the low 3 bits, the next bit set
\* for white
TypeBits(piece) == piece % 8

ColorBit(piece) == (piece \div 8) % 2

\* bias + the row of feature index idx, as int16
BiasPlusRow(net, idx) ==
    [i \in Idx |-> ToInt16(net.featureBiases[i] + net.featureWeights[idx * Layer1Size + i])]

\* the first update after a reset()
FirstActivation(t) ==
    last[t].op = "activate" /\ last[t].pre = <<AccInit(Net.featureBiases)>>

(***************************************************************************)
(* C5  Feature index formula, as claimed: white-perspective index =        *)
(* colorBit * 384 + type * 64 + square with colorBit = 1 for a white       *)
(* piece, black-perspective index = (1 - colorBit) * 384 + type * 64 +     *)
(* (square XOR 56); reset() then activateFeature(p, s) leaves each         *)
(* perspective equal to bias + the row at its index.                       *)
(***************************************************************************)
FeatureIndexAsClaimed ==
    \A t \in Inst :
        FirstActivation(t) =>
            LET p == last[t].piece
                s == last[t].src
                whiteIdx == ColorBit(p) * 384 + TypeBits(p) * 64 + s
                blackIdx == (1 - ColorBit(p)) * 384 + TypeBits(p) * 64 + BitXor(s, 56)
            IN  /\ featureIndices(p, s) = <<blackIdx, whiteIdx>>
                /\ m_accumulatorStack[t][1].white = BiasPlusRow(Net, whiteIdx)
                /\ m_accumulatorStack[t][1].black = BiasPlusRow(Net, blackIdx)

(***************************************************************************)
(* C5, amended: each perspective puts the pieces of its own colour first:  *)
(* white-perspective index = (1 - colorBit) * 384 + type * 64 + square,    *)
(* black-perspective index = colorBit * 384 + type * 64 + (square XOR 56), *)
(* colorBit = 1 for a white piece; reset() then activateFeature(p, s)      *)
(* leaves each perspective equal to bias + the row at its index.           *)
(***************************************************************************)
FeatureIndexAmended ==
    \A t \in Inst :
        FirstActivation(t) =>
            LET p == last[t].piece
                s == last[t].src
                whiteIdx == (1 - ColorBit(p)) * 384 + TypeBits(p) * 64 + s
                blackIdx == ColorBit(p) * 384 + TypeBits(p) * 64 + BitXor(s, 56)
            IN  /\ ~ub
                /\ Depth(t) = 1
                /\ featureIndices(p, s) = <<blackIdx, whiteIdx>>
                /\ m_accumulatorStack[t][1].white = BiasPlusRow(Net, whiteIdx)
                /\ m_accumulatorStack[t][1].black = BiasPlusRow(Net, blackIdx)

\* the scenario of the claim: a white pawn appears on a2, under the weight
\* store whose rows all differ
FeatureIndexWitness ==
    /\ FirstActivation(1)
    /\ last[1].piece = White + 0
    /\ last[1].src = 8
    /\ g_nnue = 2
    /\ m_accumulatorStack[1][1].white = BiasPlusRow(Net, 8)
    /\ m_accumulatorStack[1][1].black = BiasPlusRow(Net, 384 + 48)


(***************************************************************************)
(* Two objects, one per search thread.  Every call is one step, so the     *)
(* behaviours are the interleavings of the two threads' calls; an object   *)
(* is copied from an Active one, by construction or by assignment.         *)
(***************************************************************************)
MaxThreadSteps == 6

ThreadFeatures == {<<White + 0, 8>>}
ThreadMoves == {<<White + 0, 8, 16>>}

NextThreads ==
    \E t \in Inst :
        \/ Tick(MaxThreadSteps) /\ Reset(t)
        \/ Tick(MaxThreadSteps) /\ Active(t) /\ Depth(t) < MaxDepth /\ Push(t)
        \/ Tick(MaxThreadSteps) /\ Depth(t) > 1 /\ Pop(t)
        \/ Tick(MaxThreadSteps) /\ Active(t) /\ \E f \in ThreadFeatures : ActivateFeature(t, f[1], f[2])
        \/ Tick(MaxThreadSteps) /\ Active(t) /\ \E f \in ThreadFeatures : DeactivateFeature(t, f[1], f[2])
        \/ Tick(MaxThreadSteps) /\ Active(t) /\ \E m \in ThreadMoves : MoveFeature(t, m[1], m[2], m[3])
        \/ Tick(MaxThreadSteps) /\ Active(t) /\ \E stm \in {0, 1} : Evaluate(t, stm)
        \/ Tick(MaxThreadSteps) /\ \E u \in Inst : Active(u) /\ CopyConstruct(t, u)
        \/ Tick(MaxThreadSteps) /\ \E u \in Inst : Active(u) /\ CopyAssign(t, u)

SpecThreads == Init /\ [][NextThreads]_vars


(***************************************************************************)
(* C9  Evaluate purity and determinism: evaluate(stm) leaves the stack     *)
(* (depth, every Accumulator, which element is current) unchanged, and two *)
(* stacks whose current Accumulators are equal return the same score for   *)
(* the same stm, whatever their depths and their lower elements.           *)
(***************************************************************************)
EvaluatePureDeterministic ==
    \A t \in Inst :
        last[t].op = "evaluate" =>
            /\ ~ub
            /\ m_accumulatorStack[t] = last[t].pre
            /\ m_curr[t] = BackOf(m_accumulatorStack, t)
            /\ \A u \in Inst :
                  (last[u].op = "evaluate"
                      /\ last[u].stm = last[t].stm
                      /\ Top(last[u].pre) = Top(last[t].pre)) =>
                      last[u].score = last[t].score

\* two evaluations of equal current Accumulators, one at the root and one
\* above a covered node, away from the bias
EvaluateWitness ==
    /\ last[1].op = "evaluate"
    /\ last[2].op = "evaluate"
    /\ last[1].stm = last[2].stm
    /\ CurrentAcc(1) = CurrentAcc(2)
    /\ Depth(1) = 1
    /\ Depth(2) = 2
    /\ CurrentAcc(1) # AccInit(Net.featureBiases)
    /\ last[1].score # 0

(***************************************************************************)
(* C10  Copy independence: a copy, constructed or assigned, of an Active   *)
(* object has the depth and the elements of its source and its current     *)
(* element is the last of its own sequence, never one of the source;       *)
(* thereafter, under every interleaving of the two owners' calls, no call  *)
(* on one object changes the depth, an Accumulator or the evaluation       *)
(* result of the other.                                                    *)
(***************************************************************************)
CopyIndependence ==
    /\ ~ub
    /\ \A t \in Inst :
        /\ own[t] = OwnState(t)
        /\ Started(t) =>
              /\ m_curr[t].obj = t
              /\ m_curr[t] = BackOf(m_accumulatorStack, t)
              /\ Valid(m_accumulatorStack, m_curr[t])
        /\ (last[t].op \in {"copy", "assign"} /\ last[t].src # t) =>
              /\ m_accumulatorStack[t] = last[t].rt
              /\ Depth(t) = Len(last[t].rt)
        /\ last[t].op = "evaluate" =>
              last[t].score = evaluate(build, Net, CurrentAcc(t), last[t].stm)

\* object 2, copied from object 1 while the pawn stood on a2, has moved it on
\* its own copy; object 1, evaluated since, still has it on a2
CopyWitness ==
    /\ steps = 5
    /\ last[2].op = "move"
    /\ last[1].op = "evaluate"
    /\ Depth(1) = 1
    /\ Depth(2) = 1
    /\ shadow[1][1] = Bump(NoFeatures, <<White + 0, 8>>, 1)
    /\ shadow[2][1] = Bump(NoFeatures, <<White + 0, 16>>, 1)
    /\ m_accumulatorStack[1] # m_accumulatorStack[2]

(***************************************************************************)
(* C11  Pop precondition is fail-fast: a pop() called at depth 1 (or on an *)
(* empty stack) is stopped by a failed assertion and leaves the stack as   *)
(* it found it; the stack is never left empty with the current reference   *)
(* designating a removed or non-existent element.                          *)
(***************************************************************************)
PopFailFast ==
    \A t \in Inst :
        /\ (last[t].op = "pop" /\ Len(last[t].pre) <= 1) =>
              /\ aborted
              /\ m_accumulatorStack[t] = last[t].pre
        /\ Started(t) => (Depth(t) >= 1 /\ Valid(m_accumulatorStack, m_curr[t]))

(***************************************************************************)
(* One object used against its contract: any call in any state, the Empty  *)
(* state included, pop() at any depth, and the sentinels (piece type None  *)
(* of either colour, square 64) among the arguments.                       *)
(***************************************************************************)
MaxMisuseSteps == 3

MisuseFeatures == {<<White + 0, 8>>, <<None, 8>>, <<White + None, 8>>, <<White + 0, NoSquare>>}
MisuseMoves == {<<White + 0, 8, 16>>, <<White + 0, 8, NoSquare>>, <<White + 0, NoSquare, 8>>,
                <<None, 8, 16>>, <<White + None, 8, 16>>}

NextMisuse ==
    \E t \in {1} :
        \/ Tick(MaxMisuseSteps) /\ Reset(t)
        \/ Tick(MaxMisuseSteps) /\ Depth(t) < MaxDepth /\ Push(t)
        \/ Tick(MaxMisuseSteps) /\ Pop(t)
        \/ Tick(MaxMisuseSteps) /\ \E f \in MisuseFeatures : ActivateFeature(t, f[1], f[2])
        \/ Tick(MaxMisuseSteps) /\ \E f \in MisuseFeatures : DeactivateFeature(t, f[1], f[2])
        \/ Tick(MaxMisuseSteps) /\ \E m \in MisuseMoves : MoveFeature(t, m[1], m[2], m[3])
        \/ Tick(MaxMisuseSteps) /\ \E stm \in {0, 1} : Evaluate(t, stm)

SpecMisuse == Init /\ [][NextMisuse]_vars

(***************************************************************************)
(* C12  Use before reset is fail-fast: the first call on a default-        *)
(* constructed NnueState, if it is push, pop, activateFeature,             *)
(* deactivateFeature, moveFeature or evaluate, is stopped by a failed      *)
(* assertion before any Accumulator is read or written; only reset() takes *)
(* the Empty stack to a non-empty one.                                     *)
(***************************************************************************)
UseBeforeResetFailFast ==
    /\ (steps = 1 /\ last[1].op # "reset") =>
          /\ aborted
          /\ ~ub
          /\ m_accumulatorStack[1] = <<>>
    /\ (steps = 1 /\ Depth(1) >= 1) => last[1].op = "reset"

\* a sentinel among the arguments of an update: piece type None (piece 6 or
\* 14) or square 64
Sentinel(piece, src, dst) == getType(piece) = None \/ src = NoSquare \/ dst = NoSquare

(***************************************************************************)
(* C13  Invalid sentinels are fail-fast: an activateFeature,               *)
(* deactivateFeature or moveFeature called on a non-empty stack with piece *)
(* type None (piece 6 or 14) or square 64 is stopped by a failed assertion *)
(* before any element of the current Accumulator is modified, so that no   *)
(* weight row of any feature is added or subtracted.                       *)
(***************************************************************************)
SentinelsFailFast ==
    \A t \in Inst :
        (/\ last[t].op \in {"activate", "deactivate", "move"}
         /\ Sentinel(last[t].piece, last[t].src, last[t].dst)
         /\ last[t].pre # <<>>) =>
            /\ aborted
            /\ m_accumulatorStack[t] = last[t].pre

(***************************************************************************)
(* C14  Current-is-last invariant: in every state reached from reset() by  *)
(* push, pop above the root, the feature updates, evaluate, copy           *)
(* construction and copy assignment, m_curr designates the last element of *)
(* the object's own sequence, so that no                                   *)
(* assert(m_curr == &m_accumulatorStack.back()) fails, also after a push   *)
(* that grew the sequence past the reserved capacity and moved its         *)
(* storage.                                                                *)
(***************************************************************************)
CurrentIsLast ==
    /\ ~aborted
    /\ \A t \in Inst :
          Started(t) =>
              /\ CurrIsBack(t)
              /\ Valid(m_accumulatorStack, m_curr[t])

\* with assert() compiled in: an update made above the reserved capacity, the
\* storage having moved, on an object another one has been copied from
CurrentIsLastWitness ==
    /\ build = "debug"
    /\ last[1].op = "activate"
    /\ Depth(1) > ReservedCapacity
    /\ capacity[1] > ReservedCapacity
    /\ last[2].op \in {"copy", "assign"}
    /\ Depth(2) >= 1

(***************************************************************************)
(* C15  Reset postcondition: from the Empty state and from any depth,      *)
(* reset() leaves a stack of depth exactly 1 whose single, current         *)
(* Accumulator has both vectors equal to featureBiases, every earlier      *)
(* element discarded; a second reset() leaves what the first one left.     *)
(***************************************************************************)
ResetPostcondition ==
    \A t \in Inst :
        last[t].op = "reset" =>
            /\ ~ub
            /\ Depth(t) = 1
            /\ m_accumulatorStack[t] = <<AccInit(Net.featureBiases)>>
            /\ \A i \in Idx :
                  /\ CurrentAcc(t).black[i] = Net.featureBiases[i]
                  /\ CurrentAcc(t).white[i] = Net.featureBiases[i]
            /\ CurrIsBack(t)
            /\ Valid(m_accumulatorStack, m_curr[t])
            /\ last[t].paired => m_accumulatorStack[t] = last[t].rt

\* a reset() that found three nodes, the storage grown past the reserved
\* capacity
ResetWitness ==
    /\ last[1].op = "reset"
    /\ last[1].found = MaxDepth
    /\ capacity[1] > ReservedCapacity
    /\ ~last[1].paired

(***************************************************************************)
(* C16  Feature indices are in range and injective: for every piece of     *)
(* type 0..5 and either colour and every square 0..63, both indices lie in *)
(* 0..767 and, within each perspective, no other (piece, square) pair has  *)
(* the same index; hence the bounds assertions of addToAll,                *)
(* subtractFromAll and subtractAndAddToAll hold and no assertion fails.    *)
(***************************************************************************)
FeatureIndicesInRangeInjective ==
    \A t \in Inst :
        FirstActivation(t) =>
            LET p == last[t].piece
                s == last[t].src
                f == featureIndices(p, s)
            IN  /\ f[1] \in 0..(InputSize - 1)
                /\ f[2] \in 0..(InputSize - 1)
                /\ RowInRange(f[1])
                /\ RowInRange(f[2])
                /\ ~aborted
                /\ ~ub
                /\ \A q \in ValidPieces, r \in AllSquares :
                      <<q, r>> # <<p, s>> =>
                          /\ featureIndices(q, r)[1] # f[1]
                          /\ featureIndices(q, r)[2] # f[2]

\* with assert() compiled in, the feature whose black-perspective row is the
\* last row of featureWeights: the white king on h1
FeatureIndicesWitness ==
    /\ build = "debug"
    /\ FirstActivation(1)
    /\ last[1].piece = White + 5
    /\ last[1].src = 7
    /\ featureIndices(last[1].piece, last[1].src)[1] = InputSize - 1
    /\ ~aborted
    /\ m_accumulatorStack[1][1] # AccInit(Net.featureBiases)

(***************************************************************************)
(* Two objects fed a position and its colour-swapped vertical mirror:      *)
(* object 1 receives, right after its reset(), any valid piece on any      *)
(* square; object 2 receives the mirror images of features active in       *)
(* object 1.  Positions made of the sample features are extended by a      *)
(* second feature and evaluated.                                           *)
(***************************************************************************)
MaxMirrorSteps == 8

\* the same piece type in the other colour, on the vertically mirrored square
MirrorOf(f) == <<BitXor(f[1], White), BitXor(f[2], 56)>>

\* the mirror image of a multiset of features
MirrorCounts(counts) ==
    [g \in {MirrorOf(f) : f \in DOMAIN counts} |-> counts[MirrorOf(g)]]

\* object 1 holds sample features only
InSample == Active(1) /\ DOMAIN Top(shadow[1]) \subseteq SampleFeatures

NextMirror ==
    \/ Tick(MaxMirrorSteps) /\ \E t \in Inst : ~Started(t) /\ Reset(t)
    \/ Tick(MaxMirrorSteps) /\ last[1].op = "reset"
          /\ \E p \in ValidPieces, s \in AllSquares : ActivateFeature(1, p, s)
    \/ Tick(MaxMirrorSteps) /\ last[1].op = "activate" /\ InSample
          /\ \E f \in SampleFeatures : ActivateFeature(1, f[1], f[2])
    \/ Tick(MaxMirrorSteps) /\ Active(1) /\ Active(2)
          /\ \E f \in DOMAIN Top(shadow[1]) : ActivateFeature(2, MirrorOf(f)[1], MirrorOf(f)[2])
    \/ Tick(MaxMirrorSteps) /\ InSample
          /\ \E t \in Inst, stm \in {0, 1} : Active(t) /\ Evaluate(t, stm)

SpecMirror == Init /\ [][NextMirror]_vars

\* object 2 holds exactly the mirror image of what object 1 holds
Mirrored ==
    /\ Depth(1) = 1
    /\ Depth(2) = 1
    /\ shadow[2][1] = MirrorCounts(shadow[1][1])

(***************************************************************************)
(* C17  Perspective mirror symmetry: the black-perspective index of        *)
(* (p, s) is the white-perspective index of (p in the other colour,        *)
(* s XOR 56) and vice versa; hence, of two stacks reset and fed a position *)
(* and its colour-swapped vertical mirror, the black vector of one equals  *)
(* the white vector of the other, and evaluate(0) on one returns what      *)
(* evaluate(1) returns on the other.                                       *)
(***************************************************************************)
MirrorSymmetry ==
    /\ ~ub
    /\ ~aborted
    /\ \A t \in Inst :
          last[t].op = "activate" =>
              LET f == <<last[t].piece, last[t].src>>
                  m == MirrorOf(f)
              IN  /\ featureIndices(f[1], f[2])[1] = featureIndices(m[1], m[2])[2]
                  /\ featureIndices(f[1], f[2])[2] = featureIndices(m[1], m[2])[1]
    /\ Mirrored =>
          /\ m_accumulatorStack[1][1].black = m_accumulatorStack[2][1].white
          /\ m_accumulatorStack[1][1].white = m_accumulatorStack[2][1].black
          /\ (last[1].op = "evaluate" /\ last[2].op = "evaluate"
                 /\ last[1].stm = 1 - last[2].stm) =>
                 last[1].score = last[2].score

\* both objects evaluated, one with stm 0 and one with stm 1, object 1 holding
\* two features and object 2 their mirror images, the perspectives different
MirrorWitness ==
    /\ Mirrored
    /\ last[1].op = "evaluate"
    /\ last[2].op = "evaluate"
    /\ last[1].stm = 0
    /\ last[2].stm = 1
    /\ Cardinality(DOMAIN shadow[1][1]) = 2
    /\ m_accumulatorStack[1][1].black # m_accumulatorStack[1][1].white
    /\ last[1].score # 0

(***************************************************************************)
(* C18  No 32-bit overflow in evaluate: for every Accumulator and every    *)
(* weight store of 16-bit values, the sum of forward and the product       *)
(* (output + outputBias) * 400 stay within the signed 32-bit range, and    *)
(* the score returned is the exact value of the formula.                   *)
(***************************************************************************)
EvaluateStaysInInt32 ==
    \A t \in Inst :
        last[t].op = "evaluate" =>
            LET x == ClaimedSum(Net, Top(last[t].pre), last[t].stm)
            IN  /\ ProductInRange(x)
                /\ last[t].score = MulDivExact(x, Scale, Q)

=============================================================================
